---- MODULE Spec2Model ----
(***************************************************************************)
(* Model of the asynchronous transcription pipeline of speech-proxy:       *)
(*   main.py          validate_audio_file, transcribe_async, job_status,    *)
(*                    get_history, websocket_transcribe_stream              *)
(*   providers.py     the four providers' transcribe                        *)
(*   celery_worker.py process_transcription_job (Celery task, max_retries=3)*)
(*   llm.py           llm_summary                                           *)
(*   webhook.py       send_webhook                                          *)
(*   db.py            TranscriptionHistory (the Job Store)                  *)
(***************************************************************************)
EXTENDS Integers, Sequences, FiniteSets, TLC

VARIABLES
    issued,     \* history: the job ids returned by accepted submissions, in order
    submitted,  \* history: job id -> the form fields of its accepted submission
    queue,      \* broker: set of task messages waiting for delivery
    active,     \* worker pool: set of task attempts being executed
    store,      \* transcription_history table: job id -> row
    clock,      \* datetime.utcnow(), as a counter
    plog,       \* history: job id -> outcomes of provider.transcribe, in order
    slog,       \* history: job id -> results of llm_summary, in order
    writes,     \* history: job id -> number of session.merge/commit done
    posts,      \* history: job id -> payloads handed to httpx.post, in order
    call,       \* history: the last POST /transcribe_async, its form and response
    vfile,      \* validator harness: the upload under validation
    vres,       \* validator harness: the outcome of validate_audio_file
    env,        \* the names of the credentials set in the process environment
    ws          \* the streaming WebSocket: handler position, buffer, frames

vars == <<issued, submitted, queue, active, store, clock, plog, slog, writes,
          posts, call, vfile, vres, env, ws>>

\* ------------------------------------------------------------------ bounds
MaxJobs == 2        \* accepted submissions per behaviour
NumWorkers == 2     \* size of the worker pool
MaxLiveJobs == 1    \* accepted submissions per behaviour of the fair specification

\* ------------------------------------------------------- Python values
None == "<None>"
Truthy(x) == x # None /\ x # ""

\* ------------------------------------------------------- main.py: validator
MIN_FILE_SIZE == 100
MAX_FILE_SIZE == 10 * 1024 * 1024
SUPPORTED_EXTENSIONS == { <<".", "m", "p", "3">>, <<".", "w", "a", "v">>,
                          <<".", "m", "4", "a">>, <<".", "o", "g", "g">> }

\* str.lower() on one character
LowerChar(c) ==
    CASE c = "A" -> "a" [] c = "G" -> "g" [] c = "M" -> "m" [] c = "O" -> "o"
      [] c = "P" -> "p" [] c = "T" -> "t" [] c = "V" -> "v" [] c = "W" -> "w"
      [] c = "X" -> "x" [] OTHER -> c

\* str.lower()
Lower(s) == [i \in 1..Len(s) |-> LowerChar(s[i])]

\* str.rfind(c): the last position of c in p (1-based), 0 when there is none
RFind(p, c) ==
    LET hits == {i \in 1..Len(p) : p[i] = c}
    IN  IF hits = {} THEN 0 ELSE CHOOSE i \in hits : \A k \in hits : k <= i

\* os.path.splitext(p)[1]: the suffix from the last dot, unless that dot comes
\* before the last separator or only dots precede it in the file name
SplitExt(p) ==
    LET sepIndex == RFind(p, "/")
        dotIndex == RFind(p, ".")
    IN  IF dotIndex > sepIndex
           /\ \E i \in (sepIndex + 1)..(dotIndex - 1) : p[i] # "."
        THEN SubSeq(p, dotIndex, Len(p))
        ELSE <<>>

HTTPException(code, d) == [raised |-> TRUE, status_code |-> code, detail |-> d]
Returned == [raised |-> FALSE, status_code |-> 200, detail |-> ""]

\* the body of the `with wave.open(...)` block: what it raises, if anything.
\* wave.open raises on a header it cannot parse, the division raises on a
\* zero frame rate, the three checks raise HTTPException.
WavBlock(w) ==
    IF ~w.parse THEN [raised |-> TRUE, status_code |-> 0, detail |-> "wave.Error"]
    ELSE IF w.framerate = 0
         THEN [raised |-> TRUE, status_code |-> 0, detail |-> "ZeroDivisionError"]
    ELSE IF w.nframes < w.framerate              \* duration < 1.0
         THEN HTTPException(400, "Audio too short.")
    ELSE IF w.nframes > 300 * w.framerate        \* duration > 300.0
         THEN HTTPException(400, "Audio too long.")
    ELSE IF w.framerate < 8000
         THEN HTTPException(400, "Sample rate too low.")
    ELSE Returned

\* try: <with block>  except Exception: raise HTTPException(400, "Corrupted...")
\* HTTPException is an Exception, so the handler catches the three above too.
WavCheck(w) ==
    IF WavBlock(w).raised
    THEN HTTPException(400, "Corrupted or invalid WAV file.")
    ELSE Returned

\* a mutant: the size floor compared with <= instead of <
validate_audio_file_strict(file) ==
    LET ext == Lower(SplitExt(file.filename))
    IN  IF ext \notin SUPPORTED_EXTENSIONS
        THEN HTTPException(400, "Unsupported file type.")
        ELSE IF file.size = 0 \/ file.size <= MIN_FILE_SIZE
        THEN HTTPException(400, "File is empty or too small.")
        ELSE IF file.size > MAX_FILE_SIZE
        THEN HTTPException(400, "File is too large.")
        ELSE IF ext = <<".", "w", "a", "v">>
        THEN WavCheck(file.wav)
        ELSE Returned

\* validate_audio_file(file): Returned when the bytes are admitted, else the
\* HTTPException raised
validate_audio_file(file) ==
    LET ext == Lower(SplitExt(file.filename))
    IN  IF ext \notin SUPPORTED_EXTENSIONS
        THEN HTTPException(400, "Unsupported file type.")
        ELSE IF file.size = 0 \/ file.size < MIN_FILE_SIZE
        THEN HTTPException(400, "File is empty or too small.")
        ELSE IF file.size > MAX_FILE_SIZE
        THEN HTTPException(400, "File is too large.")
        ELSE IF ext = <<".", "w", "a", "v">>
        THEN WavCheck(file.wav)
        ELSE Returned

\* ------------------------------------------------ providers.py: the registry
PROVIDER_MAP == {"openai", "elevenlabs", "google", "aws"}

\* what provider.transcribe(audio_bytes, filename) can do as seen by its caller:
\* raise, return None, return an empty string, return a transcript.
\* PROVIDER_MAP.get of an unknown key is None, and None.transcribe raises.
Raised == [raised |-> TRUE, value |-> None]
Value(t) == [raised |-> FALSE, value |-> t]

\* os.getenv(name, ""): a variable that is unset or empty is falsy
Credentials ==
    {"OPENAI_API_KEY", "ELEVENLABS_API_KEY", "GOOGLE_API_KEY",
     "AWS_ACCESS_KEY_ID", "AWS_SECRET_ACCESS_KEY"}
getenv(name) == name \in env

\* the step of a call that fails, if any: building the SDK client, the network
\* call, reading the response; and the transcript the service replies with
Steps == {"none", "client", "call", "response"}
Replies == {"", "hello"}

\* OpenAIProvider.transcribe: the client is built at line 31, before the try
OpenAIProvider(fault, reply) ==
    IF ~getenv("OPENAI_API_KEY") THEN Value(None)
    ELSE IF fault = "client" THEN Raised
    ELSE IF fault # "none" THEN Value(None)
    ELSE Value(reply)

\* ElevenLabsProvider.transcribe: every step is inside the try
ElevenLabsProvider(fault, reply) ==
    IF ~getenv("ELEVENLABS_API_KEY") THEN Value(None)
    ELSE IF fault # "none" THEN Value(None)
    ELSE Value(reply)

\* a mutant: without a key the Google provider returns None like the others
GoogleProvider_strict(fault, reply) ==
    IF ~getenv("GOOGLE_API_KEY") THEN Value(None)
    ELSE IF fault # "none" THEN Value(None)
    ELSE Value(reply)

\* GoogleProvider.transcribe: a demo transcript without a key
GoogleDemo == "Google STT (demo): This is a fake transcript."
GoogleProvider(fault, reply) ==
    IF ~getenv("GOOGLE_API_KEY") THEN Value(GoogleDemo)
    ELSE IF fault # "none" THEN Value(None)
    ELSE Value(reply)

\* AWSProvider.transcribe: a demo transcript without both keys; with them the
\* text returned says that the job was started
AWSDemo == "AWS Transcribe (demo): This is a fake transcript."
AWSStarted == "AWS Transcribe job started: job-1 (polling not implemented in demo)"
AWSProvider(fault, reply) ==
    IF ~getenv("AWS_ACCESS_KEY_ID") \/ ~getenv("AWS_SECRET_ACCESS_KEY")
    THEN Value(AWSDemo)
    ELSE IF fault # "none" THEN Value(None)
    ELSE Value(AWSStarted)

\* PROVIDER_MAP[provider_name].transcribe(audio_bytes, filename)
transcribe(provider_name, fault, reply) ==
    CASE provider_name = "openai" -> OpenAIProvider(fault, reply)
      [] provider_name = "elevenlabs" -> ElevenLabsProvider(fault, reply)
      [] provider_name = "google" -> GoogleProvider(fault, reply)
      [] provider_name = "aws" -> AWSProvider(fault, reply)

TranscribeOutcomes(provider_name) ==
    IF provider_name \notin PROVIDER_MAP THEN {Raised}
    ELSE { transcribe(provider_name, f, r) : f \in Steps, r \in Replies }

\* ------------------------------------------------------ llm.py: llm_summary
\* None without an API key or without text; otherwise the stripped completion,
\* or None when the call raises (the exception is logged and swallowed).
llm_summary(text) ==
    IF ~getenv("OPENAI_API_KEY") \/ ~Truthy(text) THEN {None} ELSE {None, "hi"}

\* ------------------------------------------------ main.py: transcribe_async
JobIds == 1..MaxJobs

Chars(name) ==
    CASE name = "a.wav" -> <<"a", ".", "w", "a", "v">>
      [] name = "b.MP3" -> <<"b", ".", "M", "P", "3">>
      [] name = "c.mp3" -> <<"c", ".", "m", "p", "3">>
      [] name = "d.ogg" -> <<"d", ".", "o", "g", "g">>
      [] name = "e.m4a" -> <<"e", ".", "m", "4", "a">>
      [] name = "f.Ogg" -> <<"f", ".", "O", "g", "g">>
      [] name = "g.txt" -> <<"g", ".", "t", "x", "t">>
      [] name = ".wav"  -> <<".", "w", "a", "v">>
      [] name = "h.wav.txt" -> <<"h", ".", "w", "a", "v", ".", "t", "x", "t">>
      [] name = "x/i.mp3" -> <<"x", "/", "i", ".", "m", "p", "3">>
      [] name = "j.M4A" -> <<"j", ".", "M", "4", "A">>
      [] name = "test.wav" -> <<"t", "e", "s", "t", ".", "w", "a", "v">>
      [] OTHER -> <<>>

NoWav == [parse |-> FALSE, nframes |-> 0, framerate |-> 0]
Wav(n, r) == [parse |-> TRUE, nframes |-> n, framerate |-> r]
Upload(name, n, w) == [filename |-> Chars(name), size |-> n, wav |-> w]

\* the form of one POST /transcribe_async
Form(file, provider, webhook_url, user_id) ==
    [file |-> file, provider |-> provider, webhook_url |-> webhook_url,
     user_id |-> user_id]

\* the forms the clients of the pipeline specification post: one with and one
\* without a webhook URL and a user id. Forms the endpoint refuses are posted in
\* the endpoint specification below; they leave the pipeline as it is.
Requests ==
    { Form(Upload("a.wav", 16044, Wav(16000, 8000)), "openai", "http://cb", "u1"),
      Form(Upload("b.MP3", 100, NoWav), "google", None, None) }

\* the forms the clients of the endpoint specification post
ApiUploads ==
    { Upload("a.wav", 16044, Wav(16000, 8000)), Upload("b.MP3", 100, NoWav),
      Upload("d.ogg", 10485760, NoWav), Upload("c.mp3", 50, NoWav),
      Upload("e.m4a", 10485761, NoWav), Upload("g.txt", 16044, NoWav),
      Upload("a.wav", 4044, Wav(4000, 8000)), Upload("a.wav", 16044, NoWav),
      Upload("test.wav", 16, NoWav) }
ApiRequests ==
    { Form(f, p, w, None) : f \in ApiUploads, p \in {"openai", "aws", "bogus"},
                            w \in {None, "http://cb"} }

NoResponse == [status_code |-> 0, detail |-> "", job_id |-> 0, status |-> ""]
NoForm == Form(Upload("", 0, NoWav), "", None, None)
NoCall == [req |-> NoForm, resp |-> NoResponse]
ErrorResponse(exc) ==
    [status_code |-> exc.status_code, detail |-> exc.detail, job_id |-> 0,
     status |-> ""]
SubmitJobResponse(id) ==
    [status_code |-> 200, detail |-> "", job_id |-> id, status |-> "queued"]

\* the args of celery_app.send_task, with the retry count of the task request
Task(job_id, req) ==
    [job_id |-> job_id, audio |-> [size |-> req.file.size, wav |-> req.file.wav],
     filename |-> req.file.filename, provider_name |-> req.provider,
     webhook_url |-> req.webhook_url, user_id |-> req.user_id, retries |-> 0]

\* a mutant: the id taken from the number of tasks waiting, which repeats
uuid4_reused == Cardinality(queue) + 1

\* uuid.uuid4(): an id no earlier call returned
uuid4 == Len(issued) + 1

\* a mutant: the id is generated and the task sent before the file is validated
transcribe_async_eager(req) ==
    IF req.provider \notin PROVIDER_MAP
    THEN /\ call' = [req |-> req,
                     resp |-> ErrorResponse(HTTPException(400, "Unknown provider."))]
         /\ UNCHANGED <<issued, submitted, queue>>
    ELSE /\ Len(issued) < MaxJobs
         /\ issued' = Append(issued, uuid4)
         /\ queue' = queue \cup {Task(uuid4, req)}
         /\ submitted' = [submitted EXCEPT ![uuid4] = req]
         /\ call' = [req |-> req,
                     resp |-> IF validate_audio_file(req.file).raised
                              THEN ErrorResponse(validate_audio_file(req.file))
                              ELSE SubmitJobResponse(uuid4)]

\* POST /transcribe_async
transcribe_async(req) ==
    IF req.provider \notin PROVIDER_MAP
    THEN /\ call' = [req |-> req,
                     resp |-> ErrorResponse(HTTPException(400, "Unknown provider."))]
         /\ UNCHANGED <<issued, submitted, queue>>
    ELSE IF validate_audio_file(req.file).raised
    THEN /\ call' = [req |-> req,
                     resp |-> ErrorResponse(validate_audio_file(req.file))]
         /\ UNCHANGED <<issued, submitted, queue>>
    ELSE /\ Len(issued) < MaxJobs
         /\ issued' = Append(issued, uuid4)
         /\ queue' = queue \cup {Task(uuid4, req)}
         /\ submitted' = [submitted EXCEPT ![uuid4] = req]
         /\ call' = [req |-> req, resp |-> SubmitJobResponse(uuid4)]

\* a client of the pipeline posts a form
Submit ==
    \E req \in Requests :
        /\ transcribe_async(req)
        /\ UNCHANGED <<active, store, clock, plog, slog, writes, posts, vfile, vres, env, ws>>

\* a client of the endpoint posts a form
ApiSubmit ==
    \E req \in ApiRequests :
        /\ transcribe_async(req)
        /\ UNCHANGED <<active, store, clock, plog, slog, writes, posts, vfile, vres, env, ws>>

\* ------------------------------------------ db.py: TranscriptionHistory
\* a row of transcription_history: the columns of hist and created_at
WithCreatedAt(h, t) ==
    [id |-> h.id, filename |-> h.filename, provider |-> h.provider,
     status |-> h.status, text |-> h.text, summary |-> h.summary,
     webhook_url |-> h.webhook_url, user_id |-> h.user_id, created_at |-> t]

\* a mutant: a row that exists is left as it is (INSERT OR IGNORE)
Merge_keep(table, h, now) ==
    IF h.id \in DOMAIN table
    THEN table
    ELSE [k \in DOMAIN table \cup {h.id} |->
             IF k = h.id THEN WithCreatedAt(h, now) ELSE table[k]]

\* session.merge(hist); session.commit(): insert the row, created_at taking its
\* default (the time of the insert), or overwrite the columns hist sets on the
\* row with the same primary key
Merge(table, h, now) ==
    IF h.id \in DOMAIN table
    THEN [table EXCEPT ![h.id] = WithCreatedAt(h, table[h.id].created_at)]
    ELSE [k \in DOMAIN table \cup {h.id} |->
             IF k = h.id THEN WithCreatedAt(h, now) ELSE table[k]]

\* ------------------------- celery_worker.py: process_transcription_job
max_retries == 3

JobOf(a) == a.msg.job_id
Append1(log, id, x) == [log EXCEPT ![id] = Append(@, x)]

\* a mutant: the message stays in the queue when a worker takes it
Deliver_peek ==
    \E m \in queue :
        /\ Cardinality(active) < NumWorkers
        /\ active' = active \cup
               {[msg |-> m, pc |-> "transcribe", status |-> "failed",
                 text |-> None, summary |-> None]}
        /\ UNCHANGED <<issued, submitted, queue, store, clock, plog, slog,
                       writes, posts, call, vfile, vres, env, ws>>

\* a mutant: the task records a "processing" row when it starts
Deliver_marking ==
    \E m \in queue :
        /\ Cardinality(active) < NumWorkers
        /\ queue' = queue \ {m}
        /\ active' = active \cup
               {[msg |-> m, pc |-> "transcribe", status |-> "failed",
                 text |-> None, summary |-> None]}
        /\ store' = Merge(store,
                          [id |-> m.job_id, filename |-> m.filename,
                           provider |-> m.provider_name, status |-> "processing",
                           text |-> None, summary |-> None,
                           webhook_url |-> m.webhook_url, user_id |-> m.user_id],
                          clock)
        /\ UNCHANGED <<issued, submitted, clock, plog, slog, writes,
                       posts, call, vfile, vres, env, ws>>

\* the broker hands one waiting message to a free worker, which runs the task
\* up to the call of provider.transcribe (lines 21-25 set the locals)
Deliver ==
    \E m \in queue :
        /\ Cardinality(active) < NumWorkers
        /\ queue' = queue \ {m}
        /\ active' = active \cup
               {[msg |-> m, pc |-> "transcribe", status |-> "failed",
                 text |-> None, summary |-> None]}
        /\ UNCHANGED <<issued, submitted, store, clock, plog, slog, writes,
                       posts, call, vfile, vres, env, ws>>

\* a mutant: the retry budget checked before the count of this retry is added
Retry_late(a) ==
    /\ active' = active \ {a}
    /\ queue' = IF a.msg.retries > max_retries
                THEN queue
                ELSE queue \cup {[a.msg EXCEPT !.retries = @ + 1]}

\* a mutant: the retry budget compared with >= instead of >
Retry_early(a) ==
    /\ active' = active \ {a}
    /\ queue' = IF a.msg.retries + 1 >= max_retries
                THEN queue
                ELSE queue \cup {[a.msg EXCEPT !.retries = @ + 1]}

\* self.retry(exc=e): with request.retries + 1 > max_retries the exception e
\* is re-raised and the task ends; otherwise the same args are sent again with
\* retries + 1 and Retry is raised. Either way the statements after the
\* try block are not executed in this attempt.
Retry(a) ==
    /\ active' = active \ {a}
    /\ queue' = IF a.msg.retries + 1 > max_retries
                THEN queue
                ELSE queue \cup {[a.msg EXCEPT !.retries = @ + 1]}

\* a mutant: the `if text:` guard of line 28 left out
Transcribe_unguarded ==
    \E a \in active : \E o \in TranscribeOutcomes(a.msg.provider_name) :
        /\ a.pc = "transcribe"
        /\ plog' = Append1(plog, JobOf(a), o)
        /\ IF o.raised
           THEN Retry(a)
           ELSE /\ active' = (active \ {a}) \cup
                      {[a EXCEPT !.text = o.value, !.pc = "summary"]}
                /\ UNCHANGED queue
        /\ UNCHANGED <<issued, submitted, store, clock, slog, writes, posts,
                       call, vfile, vres, env, ws>>

\* lines 27-28 and the except clause: the provider call returns or raises
Transcribe ==
    \E a \in active : \E o \in TranscribeOutcomes(a.msg.provider_name) :
        /\ a.pc = "transcribe"
        /\ plog' = Append1(plog, JobOf(a), o)
        /\ IF o.raised
           THEN Retry(a)
           ELSE /\ active' = (active \ {a}) \cup
                      {[a EXCEPT !.text = o.value,
                                 !.pc = IF Truthy(o.value) THEN "summary"
                                                           ELSE "commit"]}
                /\ UNCHANGED queue
        /\ UNCHANGED <<issued, submitted, store, clock, slog, writes, posts,
                       call, vfile, vres, env, ws>>

\* a mutant: a failed summary escapes llm_summary and reaches the except clause
Summarize_raising ==
    \E a \in active : \E s \in llm_summary(a.text) :
        /\ a.pc = "summary"
        /\ slog' = Append1(slog, JobOf(a), s)
        /\ IF s = None
           THEN Retry(a)
           ELSE /\ active' = (active \ {a}) \cup
                      {[a EXCEPT !.summary = s, !.status = "completed",
                                 !.pc = "commit"]}
                /\ UNCHANGED queue
        /\ UNCHANGED <<issued, submitted, store, clock, plog, writes,
                       posts, call, vfile, vres, env, ws>>

\* lines 29-30: summary = llm_summary(text); status = "completed"
Summarize ==
    \E a \in active : \E s \in llm_summary(a.text) :
        /\ a.pc = "summary"
        /\ slog' = Append1(slog, JobOf(a), s)
        /\ active' = (active \ {a}) \cup
               {[a EXCEPT !.summary = s, !.status = "completed", !.pc = "commit"]}
        /\ UNCHANGED <<issued, submitted, queue, store, clock, plog, writes,
                       posts, call, vfile, vres, env, ws>>

\* line 33: the TranscriptionHistory built from the task's args and locals
\* (created_at is left unset)
Hist(a) ==
    [id |-> a.msg.job_id, filename |-> a.msg.filename,
     provider |-> a.msg.provider_name, status |-> a.status, text |-> a.text,
     summary |-> a.summary, webhook_url |-> a.msg.webhook_url,
     user_id |-> a.msg.user_id]

\* a mutant: the row is merged but the session is never committed
Commit_unsaved ==
    \E a \in active :
        /\ a.pc = "commit"
        /\ UNCHANGED <<store, clock>>
        /\ writes' = [writes EXCEPT ![JobOf(a)] = @ + 1]
        /\ active' = IF Truthy(a.msg.webhook_url)
                     THEN (active \ {a}) \cup {[a EXCEPT !.pc = "webhook"]}
                     ELSE active \ {a}
        /\ UNCHANGED <<issued, submitted, queue, plog, slog, posts, call,
                       vfile, vres, env, ws>>

\* lines 33-37: the finalization write; the task ends here without a webhook_url
Commit ==
    \E a \in active :
        /\ a.pc = "commit"
        /\ store' = Merge(store, Hist(a), clock)
        /\ UNCHANGED clock
        /\ writes' = [writes EXCEPT ![JobOf(a)] = @ + 1]
        /\ active' = IF Truthy(a.msg.webhook_url)
                     THEN (active \ {a}) \cup {[a EXCEPT !.pc = "webhook"]}
                     ELSE active \ {a}
        /\ UNCHANGED <<issued, submitted, queue, plog, slog, posts, call,
                       vfile, vres, env, ws>>

\* webhook.py send_webhook(webhook_url, payload): one httpx.post; whether it
\* succeeds or raises, the function returns normally
Payload(a) ==
    [job_id |-> a.msg.job_id, status |-> a.status, text |-> a.text,
     summary |-> a.summary]
send_webhook(a) ==
    \E result \in {"sent", "raised"} :
        posts' = Append1(posts, JobOf(a),
                         [url |-> a.msg.webhook_url, json |-> Payload(a),
                          result |-> result])

\* line 38, after which the task returns
Webhook ==
    \E a \in active :
        /\ a.pc = "webhook"
        /\ send_webhook(a)
        /\ active' = active \ {a}
        /\ UNCHANGED <<issued, submitted, queue, store, clock, plog, slog,
                       writes, call, vfile, vres, env, ws>>

\* ------------------------------------------------------ main.py: job_status
NotFound == [status_code |-> 404, detail |-> "Job not found."]
JobStatusResponse(hist) ==
    [status_code |-> 200, job_id |-> hist.id, status |-> hist.status,
     provider |-> hist.provider, text |-> hist.text, summary |-> hist.summary,
     created_at |-> hist.created_at]

\* GET /job_status/{job_id}: a read of the table
job_status(job_id) ==
    IF job_id \notin DOMAIN store THEN NotFound ELSE JobStatusResponse(store[job_id])

\* ------------------------------------------------------ main.py: get_history
\* a tick of the clock as a datetime: two ticks to the second
DateTime(t) == [second |-> t \div 2, microsecond |-> (t % 2) * 500000]

\* datetime.isoformat(): the microseconds are left out when they are zero
Digit == <<"0", "1", "2", "3", "4", "5", "6", "7", "8", "9">>
RECURSIVE Digits(_, _)
Digits(n, width) ==
    IF width = 0 THEN << >>
    ELSE Append(Digits(n \div 10, width - 1), Digit[(n % 10) + 1])
isoformat(d) ==
    <<"2026-11-05T00:00:">> \o Digits(d.second, 2) \o
    (IF d.microsecond = 0 THEN << >> ELSE <<".">> \o Digits(d.microsecond, 6))

HistoryItem(it) ==
    [job_id |-> it.id, filename |-> it.filename, provider |-> it.provider,
     status |-> it.status, created_at |-> isoformat(DateTime(it.created_at))]

\* a mutant: the rows in ascending order of created_at
RECURSIVE OrderByAsc(_, _)
OrderByAsc(table, ids) ==
    IF ids = {} THEN {<< >>}
    ELSE UNION { { <<table[k]>> \o rest : rest \in OrderByAsc(table, ids \ {k}) } :
                 k \in { k \in ids : \A m \in ids :
                             table[k].created_at <= table[m].created_at } }

\* query(...).order_by(created_at.desc()).all(): the rows of ids, latest first;
\* rows with equal created_at come in any order
RECURSIVE OrderByDesc(_, _)
OrderByDesc(table, ids) ==
    IF ids = {} THEN {<< >>}
    ELSE UNION { { <<table[k]>> \o rest : rest \in OrderByDesc(table, ids \ {k}) } :
                 k \in { k \in ids : \A m \in ids :
                             table[k].created_at >= table[m].created_at } }

\* GET /history: the lists the endpoint can answer with
get_history ==
    { [i \in 1..Len(items) |-> HistoryItem(items[i])] :
          items \in OrderByDesc(store, DOMAIN store) }

\* --------------------------------------- main.py: websocket_transcribe_stream
\* the connection: where the handler is, the length of its buffer, the frames
\* sent by the client and not yet received, the sizes of all chunks the client
\* sent, and the JSON messages the server sent
NoSocket ==
    [pc |-> "idle", buffer |-> 0, inbox |-> << >>, chunks |-> << >>, sent |-> << >>]
Bytes(n) == [type |-> "bytes", size |-> n]
Disconnect == [type |-> "disconnect", size |-> 0]
Json(key, value) == [key |-> key, value |-> value]

\* the sizes of the chunks a client sends, and how many it sends at most
ChunkSizes == {17, 16000, 16001}
MaxChunks == 3

\* a client connects: await websocket.accept(); buffer = b''
WsAccept ==
    /\ ws.pc = "idle"
    /\ ws' = [ws EXCEPT !.pc = "receive", !.buffer = 0]
    /\ UNCHANGED <<issued, submitted, queue, active, store, clock, plog, slog,
                   writes, posts, call, vfile, vres, env>>

\* the client sends one binary chunk
WsSendBytes ==
    \E n \in ChunkSizes :
        /\ ws.pc = "receive"
        /\ Len(ws.chunks) < MaxChunks
        /\ Disconnect \notin {ws.inbox[i] : i \in 1..Len(ws.inbox)}
        /\ ws' = [ws EXCEPT !.inbox = Append(@, Bytes(n)),
                            !.chunks = Append(@, n)]
        /\ UNCHANGED <<issued, submitted, queue, active, store, clock, plog,
                       slog, writes, posts, call, vfile, vres, env>>

\* the client closes the connection
WsDisconnect ==
    /\ ws.pc = "receive"
    /\ Disconnect \notin {ws.inbox[i] : i \in 1..Len(ws.inbox)}
    /\ ws' = [ws EXCEPT !.inbox = Append(@, Disconnect)]
    /\ UNCHANGED <<issued, submitted, queue, active, store, clock, plog, slog,
                   writes, posts, call, vfile, vres, env>>

\* one turn of the loop of lines 77-83: receive_bytes returns a chunk or raises
\* WebSocketDisconnect; the buffer is transcribed by the openai provider when it
\* is longer than 16000 bytes, and an exception of the provider is reported
\* as {"error": ...} before the connection is closed
websocket_transcribe_stream ==
    /\ ws.pc = "receive"
    /\ ws.inbox # << >>
    /\ LET frame == Head(ws.inbox)
           buffer == ws.buffer + frame.size
       IN  IF frame.type = "disconnect"
           THEN ws' = [ws EXCEPT !.inbox = Tail(@), !.pc = "closed"]
           ELSE IF buffer > 16000
           THEN \E o \in TranscribeOutcomes("openai") :
                    IF o.raised
                    THEN ws' = [ws EXCEPT !.inbox = Tail(@), !.buffer = buffer,
                                         !.sent = Append(@, Json("error", "exc")),
                                         !.pc = "closed"]
                    ELSE ws' = [ws EXCEPT !.inbox = Tail(@), !.buffer = 0,
                                         !.sent = Append(@, Json("partial", o.value))]
           ELSE ws' = [ws EXCEPT !.inbox = Tail(@), !.buffer = buffer]
    /\ UNCHANGED <<issued, submitted, queue, active, store, clock, plog, slog,
                   writes, posts, call, vfile, vres, env>>

\* --------------------------------------------------------- specification
NoUpload == Upload("", 0, NoWav)
NotValidated == [raised |-> FALSE, status_code |-> 0, detail |-> ""]

\* the uploads the validator is applied to
ValNames == {"a.wav", "b.MP3", "c.mp3", "d.ogg", "e.m4a", "f.Ogg", "g.txt",
             ".wav", "h.wav.txt", "x/i.mp3", "j.M4A"}
ValSizes == {0, 50, 99, 100, 101, 4044, 8044, 16044, 3200044, 10485760, 10485761}
ValWavs == {NoWav, Wav(0, 0), Wav(4000, 8000), Wav(7999, 8000), Wav(8000, 8000),
            Wav(16000, 8000), Wav(2400000, 8000), Wav(2400001, 8000),
            Wav(3200000, 8000), Wav(8000, 4000), Wav(2000, 4000)}
ValUploads == {Upload(n, z, w) : n \in ValNames, z \in ValSizes, w \in ValWavs}

\* nothing submitted yet, an empty table, no socket, every credential set
Init ==
    /\ issued = << >>
    /\ submitted = [j \in JobIds |-> NoForm]
    /\ queue = {}
    /\ active = {}
    /\ store = << >>
    /\ clock = 0
    /\ plog = [j \in JobIds |-> << >>]
    /\ slog = [j \in JobIds |-> << >>]
    /\ writes = [j \in JobIds |-> 0]
    /\ posts = [j \in JobIds |-> << >>]
    /\ call = NoCall
    /\ vfile = NoUpload
    /\ vres = NotValidated
    /\ env = Credentials
    /\ ws = NoSocket

Next == Submit \/ Deliver \/ Transcribe \/ Summarize \/ Commit \/ Webhook

Spec == Init /\ [][Next]_vars

\* the pipeline with one job and workers that keep working: a waiting message
\* is eventually delivered and a started call eventually returns or raises
LiveRequests ==
    Requests \cup
    { Form(Upload("a.wav", 16044, Wav(16000, 8000)), "openai", None, "u2") }
LiveSubmit ==
    \E req \in LiveRequests :
        /\ Len(issued) < MaxLiveJobs
        /\ transcribe_async(req)
        /\ UNCHANGED <<active, store, clock, plog, slog, writes, posts, vfile,
                       vres, env, ws>>
LiveNext == LiveSubmit \/ Deliver \/ Transcribe \/ Summarize \/ Commit \/ Webhook
LiveSpec ==
    /\ Init /\ [][LiveNext]_vars
    /\ WF_vars(Deliver) /\ WF_vars(Transcribe) /\ WF_vars(Summarize)
    /\ WF_vars(Commit) /\ WF_vars(Webhook)

\* the submission endpoint alone, posted every kind of form
ApiNext == ApiSubmit
ApiSpec == Init /\ [][ApiNext]_vars

\* the validator alone, applied to one upload
ValInit ==
    /\ issued = << >>
    /\ submitted = [j \in JobIds |-> NoForm]
    /\ queue = {}
    /\ active = {}
    /\ store = << >>
    /\ clock = 0
    /\ plog = [j \in JobIds |-> << >>]
    /\ slog = [j \in JobIds |-> << >>]
    /\ writes = [j \in JobIds |-> 0]
    /\ posts = [j \in JobIds |-> << >>]
    /\ call = NoCall
    /\ vfile \in ValUploads
    /\ vres = NotValidated
    /\ env = Credentials
    /\ ws = NoSocket

Validate ==
    /\ vres = NotValidated
    /\ vres' = validate_audio_file(vfile)
    /\ UNCHANGED <<issued, submitted, queue, active, store, clock, plog, slog,
                   writes, posts, call, vfile, env, ws>>

ValNext == Validate
ValSpec == ValInit /\ [][ValNext]_vars

\* one job in a deployment with any of the credentials set or missing
EnvRequests ==
    { Form(Upload("b.MP3", 100, NoWav), p, w, None) :
          p \in PROVIDER_MAP, w \in {None, "http://cb"} }
EnvInit ==
    /\ issued = << >>
    /\ submitted = [j \in JobIds |-> NoForm]
    /\ queue = {}
    /\ active = {}
    /\ store = << >>
    /\ clock = 0
    /\ plog = [j \in JobIds |-> << >>]
    /\ slog = [j \in JobIds |-> << >>]
    /\ writes = [j \in JobIds |-> 0]
    /\ posts = [j \in JobIds |-> << >>]
    /\ call = NoCall
    /\ vfile = NoUpload
    /\ vres = NotValidated
    /\ env \in SUBSET Credentials
    /\ ws = NoSocket
EnvSubmit ==
    \E req \in EnvRequests :
        /\ issued = << >>
        /\ transcribe_async(req)
        /\ UNCHANGED <<active, store, clock, plog, slog, writes, posts, vfile,
                       vres, env, ws>>
EnvNext == EnvSubmit \/ Deliver \/ Transcribe \/ Summarize \/ Commit \/ Webhook
EnvSpec == EnvInit /\ [][EnvNext]_vars

\* the Job Store alone: finalization rows written for any id, any number of
\* times, while time passes
MaxWrites == 3
MaxClock == 2

\* the values status, text and summary can have at line 33
Locals ==
    { <<"failed", None, None>>, <<"failed", "", None>>,
      <<"completed", "hello", None>>, <<"completed", "hello", "hi">> }
\* the form job j was submitted with: every write for j carries its args
StoreForm(j) ==
    IF j % 2 = 1
    THEN Form(Upload("a.wav", 16044, Wav(16000, 8000)), "openai", "http://cb", "u1")
    ELSE Form(Upload("b.MP3", 100, NoWav), "google", None, None)
StoreAttempts ==
    { [msg |-> Task(j, StoreForm(j)), pc |-> "commit", status |-> l[1],
       text |-> l[2], summary |-> l[3]] : j \in JobIds, l \in Locals }
StoreHists == { Hist(a) : a \in StoreAttempts }

RECURSIVE SumWrites(_)
SumWrites(ids) ==
    IF ids = {} THEN 0
    ELSE LET j == CHOOSE k \in ids : TRUE IN writes[j] + SumWrites(ids \ {j})

\* celery_worker.py lines 33-35 on their own: one row merged and committed
Finalize ==
    \E h \in StoreHists :
        /\ SumWrites(JobIds) < MaxWrites
        /\ store' = Merge(store, h, clock)
        /\ writes' = [writes EXCEPT ![h.id] = @ + 1]
        /\ UNCHANGED <<issued, submitted, queue, active, clock, plog, slog,
                       posts, call, vfile, vres, env, ws>>

\* datetime.utcnow() moves on
Tick ==
    /\ clock < MaxClock
    /\ clock' = clock + 1
    /\ UNCHANGED <<issued, submitted, queue, active, store, plog, slog,
                   writes, posts, call, vfile, vres, env, ws>>

StoreNext == Finalize \/ Tick
StoreSpec == Init /\ [][StoreNext]_vars

\* the streaming endpoint alone, with one client
WsNext == WsAccept \/ WsSendBytes \/ WsDisconnect \/ websocket_transcribe_stream
WsSpec == Init /\ [][WsNext]_vars

\* ------------------------------------------------------- the job's life
Submitted(j) == \E i \in 1..Len(issued) : issued[i] = j
Queued(j) == \E m \in queue : m.job_id = j
Running(j) == \E a \in active : JobOf(a) = j
\* nothing of job j is left to run: no message waits and no attempt is active
Ended(j) == Submitted(j) /\ ~Queued(j) /\ ~Running(j)
Finalized(j) == j \in DOMAIN store /\ store[j].status \in {"completed", "failed"}
Completed(j) == j \in DOMAIN store /\ store[j].status = "completed"
Calls(j) == Len(plog[j])
\* the provider raised on each of the first k calls for job j
RaisedFirst(j, k) == Calls(j) >= k /\ \A i \in 1..k : plog[j][i].raised
\* ... and returned non-empty text on call k + 1
ThenText(j, k) ==
    /\ RaisedFirst(j, k)
    /\ Calls(j) >= k + 1
    /\ ~plog[j][k + 1].raised
    /\ Truthy(plog[j][k + 1].value)
WantsWebhook(j) == Truthy(submitted[j].webhook_url)

\* ------------------------------------------------------------------ claims

\* C1: every accepted job is finalized: once nothing of it is left to run, the
\* Job Store holds its row with status completed or failed, also when the
\* provider raised on every attempt. (Stated as the final result of a job.)
C1_EndedJobHasRow ==
    \A j \in JobIds : Ended(j) => Finalized(j)

\* C2: when the provider raises on the first k <= 3 calls of a job and returns
\* non-empty text on call k + 1, then call k + 1 does take place, it is the
\* last call for the job (exactly k + 1 invocations), and the job reaches
\* status completed.
C2_RetryThenSuccess ==
    \A j \in 1..MaxLiveJobs : \A k \in 0..max_retries :
        /\ (Submitted(j) /\ RaisedFirst(j, k)) ~> (Calls(j) >= k + 1)
        /\ [](ThenText(j, k) => Calls(j) = k + 1)
        /\ ThenText(j, k) ~> (Completed(j) /\ Ended(j))
        /\ [](ThenText(j, k) /\ Ended(j) => Completed(j))

C2_Witness ==
    \E j \in JobIds : ThenText(j, 2) /\ Calls(j) = 3 /\ Completed(j) /\ Ended(j)

\* C3: over the whole life of a job there is exactly one finalization write and,
\* after it, exactly one webhook POST if a webhook URL was supplied and none
\* otherwise. (Stated as the final result of a job.)
C3_ExactlyOneWriteAndPost ==
    \A j \in JobIds :
        /\ Len(posts[j]) <= writes[j]
        /\ Ended(j) =>
              /\ writes[j] = 1
              /\ Len(posts[j]) = IF WantsWebhook(j) THEN 1 ELSE 0

\* C4: when the provider returns None on the first call of a job, the job is
\* not retried (one invocation), the summarizer is not called, the row written
\* has status failed with text and summary absent, and the only POST made, if
\* a webhook URL was given, carries status failed.
FailedPayload(j) ==
    [job_id |-> j, status |-> "failed", text |-> None, summary |-> None]
C4_AbsentIsFailedOnce ==
    \A j \in JobIds :
        (Calls(j) >= 1 /\ plog[j][1] = Value(None)) =>
            /\ Calls(j) = 1
            /\ ~Queued(j)
            /\ slog[j] = << >>
            /\ j \in DOMAIN store =>
                  /\ store[j].status = "failed"
                  /\ store[j].text = None
                  /\ store[j].summary = None
            /\ \A i \in 1..Len(posts[j]) : posts[j][i].json = FailedPayload(j)
            /\ Ended(j) =>
                  /\ j \in DOMAIN store
                  /\ writes[j] = 1
                  /\ Len(posts[j]) = IF WantsWebhook(j) THEN 1 ELSE 0

C4_Witness ==
    \E j \in JobIds :
        /\ plog[j] = <<Value(None)>>
        /\ Ended(j)
        /\ WantsWebhook(j)
        /\ store[j].status = "failed"
        /\ Len(posts[j]) = 1

\* C5: when the provider returns non-empty text t, the summarizer is called
\* once and the job is not retried; the row written has status completed,
\* text t and the summarizer's result as summary, which is None when the
\* summarizer failed.
LastCall(j) == plog[j][Calls(j)]
ReturnedText(j) == Calls(j) >= 1 /\ ~LastCall(j).raised /\ Truthy(LastCall(j).value)
WavNames == {Chars("a.wav")}
NonWavNames == {Chars("b.MP3"), Chars("c.mp3"), Chars("d.ogg"), Chars("e.m4a"),
                Chars("f.Ogg"), Chars("x/i.mp3"), Chars("j.M4A")}
OtherNames == {Chars("g.txt"), Chars(".wav"), Chars("h.wav.txt")}
Validated == vres # NotValidated
Rejected(reason) ==
    vres.raised /\ vres.status_code = 400 /\ vres.detail = reason
\* a well-formed 8-bit mono WAV of n frames at rate r: a 44-byte header and n bytes
WellFormedWav(n, r) ==
    vfile.filename \in WavNames /\ vfile.wav = Wav(n, r) /\ vfile.size = 44 + n

\* C6: the validator rejects with 400 and the documented reason: a 50-byte file,
\* a file over 10 MiB, a file with an unsupported extension, a well-formed WAV
\* of 0.5 s, one of 400 s, and one with a 4000 Hz frame rate.
C6_DocumentedReasons ==
    Validated =>
        /\ (vfile.filename \in WavNames \cup NonWavNames /\ vfile.size = 50)
              => Rejected("File is empty or too small.")
        /\ (vfile.filename \in WavNames \cup NonWavNames /\ vfile.size > 10485760)
              => Rejected("File is too large.")
        /\ vfile.filename \in OtherNames => Rejected("Unsupported file type.")
        /\ WellFormedWav(4000, 8000) => Rejected("Audio too short.")
        /\ WellFormedWav(3200000, 8000) => Rejected("Audio too long.")
        /\ WellFormedWav(8000, 4000) => Rejected("Sample rate too low.")

\* C7: an upload named .mp3, .m4a or .ogg in any letter case is admitted exactly
\* when its length is between 100 bytes and 10 MiB, both included, whatever its
\* content is.
C7_NonWavBySizeOnly ==
    (Validated /\ vfile.filename \in NonWavNames) =>
        (~vres.raised <=> (vfile.size >= 100 /\ vfile.size <= 10485760))

C7_Witness ==
    /\ Validated
    /\ vfile = Upload("b.MP3", 100, NoWav)
    /\ ~vres.raised

\* C8: a submission with an unknown provider key or a file the validator
\* refuses is answered 400, generates no job id and sends no task; the provider
\* key decides first; an id is generated and a task sent only for a form that
\* passes both checks.
KnownProvider(p) == p \in {"openai", "elevenlabs", "google", "aws"}
C8_RejectedLeavesNoJob ==
    [][ LET req == call'.req
            r == call'.resp
            bad == validate_audio_file(req.file)
        IN  /\ ~KnownProvider(req.provider) =>
                  /\ r.status_code = 400 /\ r.detail = "Unknown provider."
            /\ (KnownProvider(req.provider) /\ bad.raised) =>
                  /\ r.status_code = 400 /\ r.detail = bad.detail
            /\ r.status_code # 200 =>
                  /\ r.job_id = 0
                  /\ issued' = issued
                  /\ queue' = queue
            /\ r.status_code = 200 =>
                  /\ KnownProvider(req.provider) /\ ~bad.raised
                  /\ issued' = Append(issued, r.job_id)
                  /\ \E m \in queue' : m.job_id = r.job_id /\ queue' = queue \cup {m}
      ]_vars

C8_Witness ==
    /\ call.req.provider = "bogus"
    /\ call.req.file = Upload("c.mp3", 50, NoWav)
    /\ call.resp.status_code = 400
    /\ call.resp.detail = "Unknown provider."
    /\ Len(issued) = 1
    /\ Cardinality(queue) = 1

\* C9: job_status answers 404 "Job not found." exactly when the table holds no
\* row for the id: for an id never returned by a submission, and for an accepted
\* job that waits in the queue (also for a retry) or whose attempt has not yet
\* committed; once the row is there the answer carries the row's id, status,
\* provider, text and summary.
Uncommitted(j) ==
    \E a \in active : JobOf(a) = j /\ a.pc \in {"transcribe", "summary", "commit"}
SameArgs(x, j) ==
    /\ Submitted(j)
    /\ x.filename = submitted[j].file.filename
    /\ x.webhook_url = submitted[j].webhook_url
    /\ x.user_id = submitted[j].user_id
C10_IdsDistinctAndCarried ==
    /\ \A i, k \in 1..Len(issued) : i # k => issued[i] # issued[k]
    /\ call.resp.status_code = 200 => call.resp.job_id = issued[Len(issued)]
    /\ \A m \in queue \cup {a.msg : a \in active} :
          /\ SameArgs(m, m.job_id)
          /\ m.provider_name = submitted[m.job_id].provider
          /\ m.audio.size = submitted[m.job_id].file.size
    /\ \A j \in DOMAIN store :
          /\ store[j].id = j
          /\ SameArgs(store[j], j)
          /\ store[j].provider = submitted[j].provider
          /\ job_status(j).job_id = j
          /\ job_status(j).provider = submitted[j].provider

C10_Witness ==
    /\ Len(issued) = 2
    /\ DOMAIN store = {1, 2}
    /\ store[1].user_id # store[2].user_id
    /\ store[1].provider # store[2].provider

\* C11: the write of a finalization row is an upsert keyed by the job id: after
\* writing row h the table holds exactly one row with h's id, carrying h's
\* status, text and summary, and the rows of all other ids are as before; a
\* second write g for the same id again leaves one row, now with g's values.
RowsOf(table, id) == {k \in DOMAIN table : table[k].id = id}
SameResult(row, h) ==
    row.status = h.status /\ row.text = h.text /\ row.summary = h.summary
UpsertOf(before, h, after) ==
    /\ Cardinality(RowsOf(after, h.id)) = 1
    /\ SameResult(after[h.id], h)
    /\ DOMAIN after = DOMAIN before \cup {h.id}
    /\ \A k \in DOMAIN before : k # h.id => after[k] = before[k]
C11_UpsertKeyedById ==
    \A h \in StoreHists :
        /\ UpsertOf(store, h, Merge(store, h, clock))
        /\ \A g \in StoreHists :
              g.id = h.id =>
                  UpsertOf(Merge(store, h, clock), g,
                           Merge(Merge(store, h, clock), g, clock))

\* a row written twice, with another id's row beside it
C11_Witness ==
    \E j, k \in JobIds :
        /\ j # k
        /\ writes[j] = 2
        /\ writes[k] = 1
        /\ store[j].status = "failed"
        /\ store[j].text = None
        /\ store[k].status = "completed"

\* C12: without its credentials the google and the aws provider return a
\* labelled placeholder, and the job is finalized completed with the
\* placeholder as text; the openai and the elevenlabs provider return None
\* without their key, and the job is finalized failed.
NoKey(j) ==
    CASE submitted[j].provider = "openai" -> ~getenv("OPENAI_API_KEY")
      [] submitted[j].provider = "elevenlabs" -> ~getenv("ELEVENLABS_API_KEY")
      [] submitted[j].provider = "google" -> ~getenv("GOOGLE_API_KEY")
      [] submitted[j].provider = "aws" ->
             ~getenv("AWS_ACCESS_KEY_ID") \/ ~getenv("AWS_SECRET_ACCESS_KEY")
      [] OTHER -> FALSE
Placeholder(j) ==
    IF submitted[j].provider = "google" THEN GoogleDemo ELSE AWSDemo
C12_PlaceholderIsCompleted ==
    \A j \in JobIds :
        (Submitted(j) /\ NoKey(j)) =>
            /\ Ended(j) => j \in DOMAIN store
            /\ Calls(j) <= 1
            /\ j \in DOMAIN store =>
                  IF submitted[j].provider \in {"google", "aws"}
                  THEN /\ store[j].status = "completed"
                       /\ store[j].text = Placeholder(j)
                  ELSE /\ store[j].status = "failed"
                       /\ store[j].text = None

C12_Witness ==
    \E j \in JobIds :
        /\ env = {"OPENAI_API_KEY", "AWS_ACCESS_KEY_ID"}
        /\ submitted[j].provider = "aws"
        /\ Ended(j)
        /\ store[j].status = "completed"
        /\ store[j].text = AWSDemo

\* C13: no call of transcribe, of any of the four providers, raises to its
\* caller: whichever step fails inside it, the call returns None.
C13_NeverRaises ==
    \A j \in JobIds : \A i \in 1..Calls(j) :
        /\ ~plog[j][i].raised
        /\ \A f \in Steps \ {"none"} : \A r \in Replies :
              transcribe(submitted[j].provider, f, r) \in {Value(None), Value(GoogleDemo), Value(AWSDemo)}

\* C14: a submission with provider "openai" and a file named .wav is answered
\* 200 with a job_id, also when the file is the 16-byte stub "RIFF....WAVEfmt "
\* of the repository's test, which is no parsable WAV.
TestStub == Upload("test.wav", 16, NoWav)
C14_WavSubmissionAccepted ==
    (/\ call.req.provider = "openai"
     /\ call.req.file \in {Upload("a.wav", 16044, Wav(16000, 8000)), TestStub})
        => (call.resp.status_code = 200 /\ call.resp.job_id \in JobIds)

\* the order of str: by the code points of the first characters that differ, a
\* proper prefix coming first
Ord(c) ==
    CASE c = "." -> 46
      [] c \in {Digit[i] : i \in 1..10} -> 47 + (CHOOSE i \in 1..10 : Digit[i] = c)
      [] OTHER -> 0
RECURSIVE StrLeq(_, _)
StrLeq(a, b) ==
    IF a = << >> THEN TRUE
    ELSE IF b = << >> THEN FALSE
    ELSE IF a[1] = b[1] THEN StrLeq(Tail(a), Tail(b))
    ELSE Ord(a[1]) < Ord(b[1])

\* C15: every answer of the history query has exactly one item for each row of
\* the table and no other item, and of two consecutive items the earlier one's
\* created_at is greater than or equal to the later one's.
C15_HistoryNewestFirst ==
    /\ get_history # {}
    /\ \A h \in get_history :
          /\ Len(h) = Cardinality(DOMAIN store)
          /\ \A id \in DOMAIN store :
                Cardinality({i \in 1..Len(h) : h[i].job_id = id}) = 1
          /\ \A i \in 1..Len(h) :
                /\ h[i].job_id \in DOMAIN store
                /\ h[i] = HistoryItem(store[h[i].job_id])
          /\ \A i \in 1..(Len(h) - 1) :
                StrLeq(h[i + 1].created_at, h[i].created_at)

\* two rows half a second apart, the later one first
C15_Witness ==
    /\ DOMAIN store = {1, 2}
    /\ store[1].created_at = 0
    /\ store[2].created_at = 1
    /\ get_history = { <<HistoryItem(store[2]), HistoryItem(store[1])>> }
    /\ HistoryItem(store[1]).created_at = <<"2026-11-05T00:00:", "0", "0">>

\* C16: every row of the table has status completed or failed, and a row that
\* is not completed has neither a text nor a summary (both None), whatever
\* transcribe returned, the empty string included.
C16_RowsTerminalAndBare ==
    \A j \in DOMAIN store :
        /\ store[j].status \in {"completed", "failed"}
        /\ store[j].status # "completed" => store[j].text = None
        /\ store[j].status # "completed" => store[j].summary = None

\* C17: a job is retried at most 3 times: transcribe is called at most 4 times
\* for one job id, a message carries a retry count of at most 3, the calls
\* before the last one all raised, and once the call of the third retry has
\* raised nothing of the job waits or runs any more.
Messages(j) == {m \in queue \cup {a.msg : a \in active} : m.job_id = j}
C17_AtMostThreeRetries ==
    \A j \in JobIds :
        /\ Calls(j) <= max_retries + 1
        /\ \A m \in Messages(j) : m.retries <= max_retries
        /\ \A m \in Messages(j) : RaisedFirst(j, m.retries)
        /\ \A i \in 1..(Calls(j) - 1) : plog[j][i].raised
        /\ RaisedFirst(j, max_retries + 1) => Messages(j) = {}

C17_Witness ==
    \E j \in JobIds :
        /\ Calls(j) = 4
        /\ RaisedFirst(j, 4)
        /\ Ended(j)

\* C18: a webhook POST for a job is issued only when the job's row is in the
\* table, and it carries the row's status, text and summary; whether the POST
\* succeeds or fails, it is the only one for the job, the row stays as it is,
\* no provider call is made and nothing is requeued, and the task has ended.
RowPayload(row) ==
    [job_id |-> row.id, status |-> row.status, text |-> row.text,
     summary |-> row.summary]
C18_PostAfterCommit ==
    [][ \A j \in JobIds :
            Len(posts'[j]) > Len(posts[j]) =>
                /\ j \in DOMAIN store
                /\ store' = store
                /\ Len(posts'[j]) = 1
                /\ posts'[j][1].json = RowPayload(store[j])
                /\ posts'[j][1].url = submitted[j].webhook_url
                /\ plog' = plog
                /\ writes' = writes
                /\ queue' = queue
                /\ ~\E a \in active' : JobOf(a) = j
                /\ ~\E m \in queue' : m.job_id = j
      ]_vars

C18_Witness ==
    \E j \in JobIds :
        /\ Len(posts[j]) = 1
        /\ posts[j][1].result = "raised"
        /\ posts[j][1].json.status = "completed"
        /\ store[j].status = "completed"
        /\ Calls(j) = 2
        /\ Ended(j)

\* C19: with several workers taking messages from the queue, a job id has at
\* most one message or attempt at any time: a message goes to one worker, and
\* the attempt of retry n exists only after n calls for the job have raised and
\* the attempts that made them have ended; attempts of different jobs run at
\* the same time.
Attempts(j) == {a \in active : JobOf(a) = j}
Waiting(j) == {m \in queue : m.job_id = j}
C19_OneAttemptPerJob ==
    /\ Cardinality(active) <= NumWorkers
    /\ \A j \in JobIds :
          /\ Cardinality(Attempts(j)) + Cardinality(Waiting(j)) <= 1
          /\ \A m \in Waiting(j) : Calls(j) = m.retries /\ RaisedFirst(j, m.retries)
          /\ \A a \in Attempts(j) :
                /\ RaisedFirst(j, a.msg.retries)
                /\ Calls(j) = IF a.pc = "transcribe" THEN a.msg.retries
                                                     ELSE a.msg.retries + 1

\* a second attempt of one job and a first attempt of another, both running
C19_Witness ==
    \E j, k \in JobIds :
        /\ j # k
        /\ \E a \in Attempts(j) : a.msg.retries = 1 /\ a.pc = "summary"
        /\ \E b \in Attempts(k) : b.msg.retries = 0 /\ b.pc = "commit"

\* C20: after the client of the streaming endpoint has sent a single binary
\* chunk of 17 bytes, the server sends a JSON message with the key "partial"
\* or "error": when the server has received the chunk and waits for the next
\* frame, that message has been sent.
C20_SingleChunkAnswered ==
    (ws.chunks = <<17>> /\ ws.inbox = << >> /\ ws.pc = "receive") =>
        /\ Len(ws.sent) = 1
        /\ ws.sent[1].key \in {"partial", "error"}

====
